---- MODULE Spec2Model ----
(***************************************************************************)
(* ShuttleMidi: a Contour ShuttlExpress is read by the goroutine           *)
(* readdevice, its field changes are handed over unbuffered channels to    *)
(* the goroutine readshuttle, which routes them to MIDI controller         *)
(* commands and passes them through SendCommand to the goroutine           *)
(* commandExecutor, which writes them to the MIDI output and repeats the   *)
(* commands flagged repeat.  startListeners, the Quit menu entry and       *)
(* onExit start and stop readshuttle and commandExecutor.                  *)
(*                                                                         *)
(* Every goroutine is a process with a position (pc); one action is one    *)
(* step of one goroutine between two accesses to shared state.  A session  *)
(* is one call of startListeners: session s owns the s-th quitch, the s-th *)
(* midiControl, and the channels the s-th readshuttle makes.               *)
(***************************************************************************)
EXTENDS Integers, Sequences, FiniteSets

\* ------------------------------------------------------------------ bounds
MaxStarts == 2      \* calls of startListeners in a run
MaxReads == 2       \* device reports read in a run
MaxTicks == 2       \* ticks delivered by the tickers in a run

\* --------------------------------------------------------- program constants
midiMaxRepeat == 50

Sessions == 1..MaxStarts

\* Fields of ShuttleStatus, in the order readdevice handles them:
\* 1 Wheel_position, 2 Dial_direction, 3..7 Button1_pressed..Button5_pressed
Fields == 1..7

\* ------------------------------------------------------------- conversions
int8(x) == LET m == x % 256 IN IF m >= 128 THEN m - 256 ELSE m

uint8(x) == x % 256

\* buf[k] & (1 << n) > 0
bit(byte, n) == (byte \div (2 ^ n)) % 2 = 1

\* A report is the bytes 0, 1, 3 and 4 of the 48 byte buffer.
Buf(b0, b1, b3, b4) == [b0 |-> b0, b1 |-> b1, b3 |-> b3, b4 |-> b4]

wheel_pos(buf) == int8(buf.b0)

dial_pos(buf) == uint8(buf.b1)

button_pressed(buf, k) == IF k = 5 THEN bit(buf.b4, 0) ELSE bit(buf.b3, 3 + k)

\* the value readdevice decodes for field f
decoded(buf, f) ==
    IF f = 1 THEN wheel_pos(buf)
    ELSE IF f = 2 THEN dial_pos(buf)
    ELSE button_pressed(buf, f - 2)

VARIABLES
    env,        \* what the surroundings still do: reports the device may deliver, budgets
    quitch,     \* main.quitch: 0 is nil, s the channel made by the s-th startListeners
    mcontrol,   \* main.mcontrol: 0 is nil, s the midiControl made by the s-th startListeners
    ctl,        \* the thread running startListeners, the Quit handler and onExit
    qch,        \* the channels quitch has named: "none" (not made), "open", "closed"
    mc,         \* the midiControl objects
    exec,       \* the commandExecutor goroutines, one per opened midiControl
    se,         \* the ShuttlExpress: channels and last values of ShuttleStatus, err
    dev,        \* the readdevice goroutine
    rs,         \* the readshuttle goroutines, one per session
    obs         \* observations: what was read, emitted, passed on and written so far

vars == <<env, quitch, mcontrol, ctl, qch, mc, exec, se, dev, rs, obs>>

\* the program runs until a goroutine panics or main returns
Running == ctl.pc \notin {"panic", "exited"}

\* ---------------------------------------------------------------- readdevice
\* the last value of field f kept in ShuttleStatus
last_value(f) ==
    IF f = 1 THEN se.wheel_value
    ELSE IF f = 2 THEN se.dial_value
    ELSE se.button_value[f - 2]

\* the first conjunct of the if of field f: the decoded value differs from the last one
differs(buf, f) == decoded(buf, f) # last_value(f)

\* the second conjunct of the if of field f: the channel tested against nil
\* (Button1_pressed for every button)
guard_channel(f) == IF f <= 3 THEN se.chans[f] ELSE se.chans[3]

dial_delta(buf) == int8(dial_pos(buf) - se.dial_value)

\* The ifs from field f on whose first conjunct is false read no shared state:
\* readdevice passes them in the step that brings it to field f.
next_field(buf, f) ==
    LET rest == {g \in Fields : g >= f /\ differs(buf, g)}
    IN IF rest = {} THEN 8 ELSE CHOOSE g \in rest : \A h \in rest : g <= h

\* readdevice in front of the if of field f, or back at Read when f = 8
at_field(buf, f) ==
    IF f = 8 THEN [pc |-> "read", f |-> 0, buf |-> buf, ch |-> 0]
    ELSE [pc |-> "field", f |-> f, buf |-> buf, ch |-> 0]

\* store_value that leaves the wheel position as it was
store_value_stale(buf, f) ==
    IF f = 1 THEN se
    ELSE IF f = 2 THEN [se EXCEPT !.dial_value = dial_pos(buf)]
    ELSE [se EXCEPT !.button_value[f - 2] = button_pressed(buf, f - 2)]

\* ShuttleStatus with the decoded value of field f stored
store_value(buf, f) ==
    IF f = 1 THEN [se EXCEPT !.wheel_value = wheel_pos(buf)]
    ELSE IF f = 2 THEN [se EXCEPT !.dial_value = dial_pos(buf)]
    ELSE [se EXCEPT !.button_value[f - 2] = button_pressed(buf, f - 2)]

\* the value sent for field f (a bool is written 1 for true, 0 for false)
event_value(buf, f) ==
    IF f = 1 THEN wheel_pos(buf)
    ELSE IF f = 2 THEN dial_delta(buf)
    ELSE IF button_pressed(buf, f - 2) THEN 1 ELSE 0

\* se.devhandle.Read(buf) returns a report
readdevice_read ==
    /\ Running
    /\ dev.pc = "read"
    /\ env.reads > 0
    /\ \E buf \in env.feed :
        /\ dev' = at_field(buf, next_field(buf, 1))
        /\ obs' = [obs EXCEPT !.nread = @ + 1, !.prev = dev.buf, !.emitted = {},
                              !.wheels = Append(@, wheel_pos(buf)),
                              !.early = @ \/ se.chans[1] = 0]
    /\ env' = [env EXCEPT !.reads = @ - 1]
    /\ UNCHANGED <<quitch, mcontrol, ctl, qch, mc, exec, se, rs>>

\* se.devhandle.Read(buf) fails: se.err is set and readdevice returns
readdevice_readerr ==
    /\ Running
    /\ dev.pc = "read"
    /\ dev' = [dev EXCEPT !.pc = "done"]
    /\ se' = [se EXCEPT !.err = TRUE]
    /\ UNCHANGED <<env, quitch, mcontrol, ctl, qch, mc, exec, rs, obs>>

\* The if of field dev.f, whose first conjunct holds: the channel is tested and,
\* when it is not nil, the channel operand of the send is evaluated.  A dial
\* difference that is no single step is stored without a send.
readdevice_field ==
    /\ Running
    /\ dev.pc = "field"
    /\ LET f == dev.f
           buf == dev.buf
       IN IF guard_channel(f) = 0
          THEN /\ dev' = at_field(buf, next_field(buf, f + 1))
               /\ UNCHANGED <<se, obs>>
          ELSE IF f = 2 /\ dial_delta(buf) \notin {1, -1}
          THEN /\ se' = store_value(buf, f)
               /\ dev' = at_field(buf, next_field(buf, f + 1))
               /\ UNCHANGED obs
          ELSE /\ dev' = [dev EXCEPT !.pc = "send", !.ch = se.chans[f]]
               /\ obs' = [obs EXCEPT !.emitted = @ \cup {[f |-> f, v |-> event_value(buf, f)]}]
               /\ UNCHANGED se
    /\ UNCHANGED <<env, quitch, mcontrol, ctl, qch, mc, exec, rs>>

\* ---------------------------------------------------------------- readshuttle
Command(controller, value, repeat) ==
    [controller |-> controller, value |-> value, repeat |-> repeat]

NoEvent == [f |-> 0, v |-> 0]

\* route_wheel with the upper end of the positive range left out
route_wheel_short(wp) ==
    IF wp > 0 /\ wp < 7
    THEN <<Command(0, uint8(int8(18 * int8(8 - wp))), TRUE)>>
    ELSE IF wp >= -7 /\ wp < 0
    THEN <<Command(1, uint8(int8(18 * int8(-wp))), TRUE)>>
    ELSE <<Command(0, 255, FALSE), Command(1, 255, FALSE)>>

\* the case of the select that takes wp from se.Wheel_position
route_wheel(wp) ==
    IF wp > 0 /\ wp <= 7
    THEN <<Command(0, uint8(int8(18 * int8(8 - wp))), TRUE)>>
    ELSE IF wp >= -7 /\ wp < 0
    THEN <<Command(1, uint8(int8(18 * int8(-wp))), TRUE)>>
    ELSE <<Command(0, 255, FALSE), Command(1, 255, FALSE)>>

\* the case that takes dd from se.Dial_direction
route_dial(dd) ==
    IF dd = 1 THEN <<Command(2, 2, FALSE)>> ELSE <<Command(2, 1, FALSE)>>

\* the cases that take b1..b5 from se.Button1_pressed..se.Button5_pressed
route_button(k, b) ==
    LET controller == CASE k = 1 -> 3 [] k = 2 -> 4 [] k = 3 -> 5 [] k = 4 -> 6 [] k = 5 -> 7
    IN IF b THEN <<Command(controller, 127, FALSE)>> ELSE <<Command(controller, 0, FALSE)>>

\* the calls of mc.SendCommand the select makes for the event it took
route(ev) ==
    IF ev.f = 1 THEN route_wheel(ev.v)
    ELSE IF ev.f = 2 THEN route_dial(ev.v)
    ELSE route_button(ev.f - 2, ev.v = 1)

\* se.X = make(chan ...), one field a step
readshuttle_make(s) ==
    /\ Running
    /\ rs[s].pc = "make"
    /\ se' = [se EXCEPT !.chans[rs[s].f] = s]
    /\ rs' = [rs EXCEPT ![s] = IF rs[s].f = 7
                                THEN [@ EXCEPT !.pc = "loop", !.f = 0]
                                ELSE [@ EXCEPT !.f = @ + 1]]
    /\ UNCHANGED <<env, quitch, mcontrol, ctl, qch, mc, exec, dev, obs>>

\* entering the select: the channel operands se.Wheel_position .. se.Button5_pressed
\* are evaluated
readshuttle_select(s) ==
    /\ Running
    /\ rs[s].pc = "loop"
    /\ rs' = [rs EXCEPT ![s] = [@ EXCEPT !.pc = "select", !.sel = se.chans]]
    /\ UNCHANGED <<env, quitch, mcontrol, ctl, qch, mc, exec, se, dev, obs>>

\* case <-quitch: return
readshuttle_quit(s) ==
    /\ Running
    /\ rs[s].pc = "select"
    /\ qch[s] = "closed"
    /\ rs' = [rs EXCEPT ![s] = [@ EXCEPT !.pc = "done"]]
    /\ UNCHANGED <<env, quitch, mcontrol, ctl, qch, mc, exec, se, dev, obs>>

\* one of the receive cases: the rendezvous with the send readdevice is blocked in.
\* readdevice stores the value it sent and goes on to its next field.
readshuttle_recv(s) ==
    /\ Running
    /\ rs[s].pc = "select"
    /\ dev.pc = "send"
    /\ dev.ch # 0
    /\ rs[s].sel[dev.f] = dev.ch
    /\ LET ev == [f |-> dev.f, v |-> event_value(dev.buf, dev.f)]
       IN /\ rs' = [rs EXCEPT ![s] = [@ EXCEPT !.pc = "send", !.todo = route(ev), !.ev = ev]]
          /\ obs' = [obs EXCEPT !.mark[s] = Len(obs.sent[s])]
    /\ se' = store_value(dev.buf, dev.f)
    /\ dev' = at_field(dev.buf, next_field(dev.buf, dev.f + 1))
    /\ UNCHANGED <<env, quitch, mcontrol, ctl, qch, mc, exec>>

\* SendCommand that does not wait for room: a command still in mc.commandch is
\* replaced
readshuttle_SendCommand_replace(s) ==
    /\ Running
    /\ rs[s].pc = "send"
    /\ LET cmd == Head(rs[s].todo)
       IN IF mc[s].output = "nil"
          THEN UNCHANGED <<mc, obs>>
          ELSE /\ mc' = [mc EXCEPT ![s].commandch = <<cmd>>]
               /\ obs' = [obs EXCEPT !.sent[s] = Append(@, cmd)]
    /\ rs' = [rs EXCEPT ![s] = IF Len(rs[s].todo) = 1
                                THEN [@ EXCEPT !.pc = "loop", !.todo = <<>>]
                                ELSE [@ EXCEPT !.todo = Tail(@)]]
    /\ UNCHANGED <<env, quitch, mcontrol, ctl, qch, exec, se, dev>>

\* mc.SendCommand(controller, value, repeat): an error when mc.output is nil, else a
\* send on mc.commandch, which has room for one command
readshuttle_SendCommand(s) ==
    /\ Running
    /\ rs[s].pc = "send"
    /\ LET cmd == Head(rs[s].todo)
       IN IF mc[s].output = "nil"
          THEN UNCHANGED <<mc, obs>>
          ELSE /\ Len(mc[s].commandch) < 1
               /\ mc' = [mc EXCEPT ![s].commandch = Append(@, cmd)]
               /\ obs' = [obs EXCEPT !.sent[s] = Append(@, cmd)]
    /\ rs' = [rs EXCEPT ![s] = IF Len(rs[s].todo) = 1
                                THEN [@ EXCEPT !.pc = "loop", !.todo = <<>>]
                                ELSE [@ EXCEPT !.todo = Tail(@)]]
    /\ UNCHANGED <<env, quitch, mcontrol, ctl, qch, exec, se, dev>>

\* ------------------------------------------------------------ commandExecutor
Controllers == 0..7

NoCommand == Command(0, 0, FALSE)

\* the map repeatcmd
emptymap == [k \in {} |-> 0]

\* put that keeps the value of an entry the map already has
put_keep_value(m, k, counter, value) ==
    [x \in DOMAIN m \cup {k} |->
        IF x = k
        THEN [counter |-> counter, value |-> IF k \in DOMAIN m THEN m[k].value ELSE value]
        ELSE m[x]]

\* repeatcmd[k] = tickstruct{counter: counter, value: value}
put(m, k, counter, value) ==
    [x \in DOMAIN m \cup {k} |-> IF x = k THEN [counter |-> counter, value |-> value] ELSE m[x]]

\* delete(repeatcmd, k)
delete(m, k) == [x \in DOMAIN m \ {k} |-> m[x]]

\* the counter a repeated command starts with
first_counter == midiMaxRepeat

\* after_command without the delete of the else branch
after_command_kept(m, cmd) ==
    IF cmd.repeat
    THEN put(m, cmd.controller, first_counter, cmd.value)
    ELSE m

\* the body of the if cmd.repeat
after_command(m, cmd) ==
    IF cmd.repeat
    THEN put(m, cmd.controller, first_counter, cmd.value)
    ELSE delete(m, cmd.controller)

\* rewritten with the comparison off by one
rewritten_once_more(v) == v.counter > 0

\* the if of the range over repeatcmd: the entry is written again
rewritten(v) == v.counter > 1

\* after_tick that empties the map as soon as one entry has run out
after_tick_all(m) ==
    IF \E x \in DOMAIN m : ~rewritten(m[x])
    THEN emptymap
    ELSE [k \in DOMAIN m |-> [m[k] EXCEPT !.counter = @ - 1]]

\* the range over repeatcmd of the tick case
after_tick(m) ==
    [k \in {x \in DOMAIN m : rewritten(m[x])} |-> [m[k] EXCEPT !.counter = @ - 1]]

\* case <-mc.quitch: return (the deferred tick.Stop() runs)
commandExecutor_quit(s) ==
    /\ Running
    /\ exec[s].pc = "select"
    /\ mc[s].quitch = "closed"
    /\ exec' = [exec EXCEPT ![s] = [@ EXCEPT !.pc = "done", !.tick = FALSE]]
    /\ UNCHANGED <<env, quitch, mcontrol, ctl, qch, mc, se, dev, rs, obs>>

\* case cmd := <-mc.commandch
commandExecutor_recv(s) ==
    /\ Running
    /\ exec[s].pc = "select"
    /\ Len(mc[s].commandch) > 0
    /\ exec' = [exec EXCEPT ![s] = [@ EXCEPT !.pc = "handle", !.cmd = Head(mc[s].commandch)]]
    /\ mc' = [mc EXCEPT ![s].commandch = Tail(@)]
    /\ UNCHANGED <<env, quitch, mcontrol, ctl, qch, se, dev, rs, obs>>

\* the body of the command case: writer.ControlChange, then the repeat table and ticker
commandExecutor_handle(s) ==
    /\ Running
    /\ exec[s].pc = "handle"
    /\ LET cmd == exec[s].cmd
           m == after_command(exec[s].repeatcmd, cmd)
       IN /\ exec' = [exec EXCEPT ![s] =
                        [pc |-> "select", cmd |-> NoCommand, repeatcmd |-> m,
                         tick |-> IF cmd.repeat THEN TRUE
                                  ELSE IF DOMAIN m = {} THEN FALSE ELSE exec[s].tick]]
          /\ obs' = [obs EXCEPT !.written[s] = Append(@, cmd),
                                !.count[s][cmd.controller] = 1,
                                !.kind[s][cmd.controller] = IF cmd.repeat THEN "repeat" ELSE "once",
                                !.wrote[s] = [by |-> "command", out |-> mc[s].output,
                                              had |-> cmd.controller \in DOMAIN exec[s].repeatcmd,
                                              w |-> {[controller |-> cmd.controller, value |-> cmd.value]}]]
    /\ UNCHANGED <<env, quitch, mcontrol, ctl, qch, mc, se, dev, rs>>

\* commandExecutor_tick without the tick.Stop() for an empty map
commandExecutor_tick_on(s) ==
    /\ Running
    /\ exec[s].pc = "select"
    /\ exec[s].tick
    /\ env.ticks > 0
    /\ LET old == exec[s].repeatcmd
           m == after_tick(old)
       IN /\ exec' = [exec EXCEPT ![s] = [@ EXCEPT !.repeatcmd = m]]
          /\ obs' = [obs EXCEPT !.count[s] = [k \in Controllers |->
                                                 IF k \in DOMAIN m THEN @[k] + 1 ELSE @[k]],
                                !.wrote[s] = [by |-> "tick", out |-> mc[s].output, had |-> FALSE,
                                              w |-> {[controller |-> k, value |-> old[k].value] :
                                                        k \in DOMAIN m}]]
    /\ env' = [env EXCEPT !.ticks = @ - 1]
    /\ UNCHANGED <<quitch, mcontrol, ctl, qch, mc, se, dev, rs>>

\* case <-tick.C: every entry with counter > 1 is written and counted down, the
\* others are deleted; the ticker stops when the map is empty
commandExecutor_tick(s) ==
    /\ Running
    /\ exec[s].pc = "select"
    /\ exec[s].tick
    /\ env.ticks > 0
    /\ LET old == exec[s].repeatcmd
           m == after_tick(old)
       IN /\ exec' = [exec EXCEPT ![s] =
                        [@ EXCEPT !.repeatcmd = m,
                                  !.tick = IF DOMAIN m = {} THEN FALSE ELSE @]]
          /\ obs' = [obs EXCEPT !.count[s] = [k \in Controllers |->
                                                 IF k \in DOMAIN m THEN @[k] + 1 ELSE @[k]],
                                !.wrote[s] = [by |-> "tick", out |-> mc[s].output, had |-> FALSE,
                                              w |-> {[controller |-> k, value |-> old[k].value] :
                                                        k \in DOMAIN m}]]
    /\ env' = [env EXCEPT !.ticks = @ - 1]
    /\ UNCHANGED <<quitch, mcontrol, ctl, qch, mc, se, dev, rs>>

\* ------------------------------------------------- startListeners, Quit, onExit
\* the MIDI device names of the menu: drv.Outs() has an output whose name contains
\* "present", and none for "absent"
DeviceNames == {"present", "absent"}

\* the for loop of Open over outs: mc.output is set when a name contains DeviceName
found(name) == name = "present"

\* startListeners up to the call of mcontrol.Close(): close(quitch) when quitch is
\* not nil
startListeners_stop ==
    /\ Running
    /\ ctl.pc = "idle"
    /\ env.starts > 0
    /\ \E name \in DeviceNames :
        IF quitch # 0
        THEN /\ qch' = [qch EXCEPT ![quitch] = "closed"]
             /\ ctl' = [ctl EXCEPT !.pc = IF qch[quitch] = "closed" THEN "panic" ELSE "close",
                                   !.ret = "open", !.name = name]
        ELSE /\ ctl' = [ctl EXCEPT !.pc = "open", !.name = name]
             /\ UNCHANGED qch
    /\ env' = [env EXCEPT !.starts = @ - 1]
    /\ UNCHANGED <<quitch, mcontrol, mc, exec, se, dev, rs, obs>>

\* Close: close(mc.quitch), which panics on a nil or a closed channel
Close_quitch ==
    /\ Running
    /\ ctl.pc = "close"
    /\ IF mc[mcontrol].quitch = "open"
       THEN /\ mc' = [mc EXCEPT ![mcontrol].quitch = "closed"]
            /\ ctl' = [ctl EXCEPT !.pc = "release"]
       ELSE /\ ctl' = [ctl EXCEPT !.pc = "panic"]
            /\ UNCHANGED mc
    /\ UNCHANGED <<env, quitch, mcontrol, qch, exec, se, dev, rs, obs>>

\* Close: mc.output.Close() and mc.drv.Close(), then the return to the caller
Close_output ==
    /\ Running
    /\ ctl.pc = "release"
    /\ IF mc[mcontrol].output = "nil"
       THEN /\ ctl' = [ctl EXCEPT !.pc = "panic"]
            /\ UNCHANGED mc
       ELSE /\ mc' = [mc EXCEPT ![mcontrol].output = "closed"]
            /\ ctl' = [ctl EXCEPT !.pc = ctl.ret]
    /\ UNCHANGED <<env, quitch, mcontrol, qch, exec, se, dev, rs, obs>>

\* Open of a new midiControl: ErrMIDIDeviceNotFound when no output was found, else
\* the output is opened, commandch and quitch are made and commandExecutor is started
Open(name) ==
    IF found(name)
    THEN [output |-> "open", quitch |-> "open", commandch |-> <<>>]
    ELSE [output |-> "nil", quitch |-> "nil", commandch |-> <<>>]

\* startListeners from quitch = make(chan struct{}) on: the new midiControl is
\* opened, and readshuttle is started or the error is shown
startListeners_open ==
    /\ Running
    /\ ctl.pc = "open"
    /\ LET s == ctl.n + 1
           ok == found(ctl.name)
       IN /\ quitch' = s
          /\ qch' = [qch EXCEPT ![s] = "open"]
          /\ mcontrol' = s
          /\ mc' = [mc EXCEPT ![s] = Open(ctl.name)]
          /\ exec' = [exec EXCEPT ![s] = IF ok THEN [@ EXCEPT !.pc = "select"] ELSE @]
          /\ rs' = [rs EXCEPT ![s] = IF ok THEN [@ EXCEPT !.pc = "make", !.f = 1] ELSE @]
          /\ ctl' = [ctl EXCEPT !.pc = "idle", !.n = s, !.err = ~ok]
    /\ UNCHANGED <<env, se, dev, obs>>

\* the Quit menu entry: close(quitch), then systray.Quit()
Quit ==
    /\ Running
    /\ ctl.pc = "idle"
    /\ quitch # 0
    /\ qch' = [qch EXCEPT ![quitch] = "closed"]
    /\ ctl' = [ctl EXCEPT !.pc = IF qch[quitch] = "closed" THEN "panic" ELSE "exit"]
    /\ UNCHANGED <<env, quitch, mcontrol, mc, exec, se, dev, rs, obs>>

\* onExit: mcontrol.Close() when mcontrol is not nil; then main returns
onExit ==
    /\ Running
    /\ ctl.pc = "exit"
    /\ ctl' = [ctl EXCEPT !.pc = IF mcontrol # 0 THEN "close" ELSE "exited", !.ret = "exited"]
    /\ UNCHANGED <<env, quitch, mcontrol, qch, mc, exec, se, dev, rs, obs>>

\* ------------------------------------------------------------- specifications
ZeroBuf == Buf(0, 0, 0, 0)

\* the state when onReady has called NewShuttlExpress: readdevice runs, the
\* channels of ShuttleStatus are nil, quitch and mcontrol are nil
InitWith(feed, starts, reads, ticks) ==
    /\ env = [feed |-> feed, starts |-> starts, reads |-> reads, ticks |-> ticks]
    /\ quitch = 0
    /\ mcontrol = 0
    /\ ctl = [pc |-> "idle", ret |-> "open", name |-> "present", n |-> 0, err |-> FALSE]
    /\ qch = [s \in Sessions |-> "none"]
    /\ mc = [s \in Sessions |-> [output |-> "nil", quitch |-> "nil", commandch |-> <<>>]]
    /\ exec = [s \in Sessions |->
                 [pc |-> "none", cmd |-> NoCommand, repeatcmd |-> emptymap, tick |-> FALSE]]
    /\ se = [chans |-> [f \in Fields |-> 0], wheel_value |-> 0, dial_value |-> 0,
             button_value |-> [k \in 1..5 |-> FALSE], err |-> FALSE]
    /\ dev = [pc |-> "read", f |-> 0, buf |-> ZeroBuf, ch |-> 0]
    /\ rs = [s \in Sessions |->
               [pc |-> "none", f |-> 0, sel |-> [f \in Fields |-> 0], todo |-> <<>>,
                ev |-> NoEvent]]
    /\ obs = [nread |-> 0, prev |-> ZeroBuf, emitted |-> {}, wheels |-> <<>>, early |-> FALSE,
              mark |-> [s \in Sessions |-> 0],
              sent |-> [s \in Sessions |-> <<>>],
              written |-> [s \in Sessions |-> <<>>],
              count |-> [s \in Sessions |-> [k \in Controllers |-> 0]],
              kind |-> [s \in Sessions |-> [k \in Controllers |-> "none"]],
              wrote |-> [s \in Sessions |-> [by |-> "none", out |-> "nil", had |-> FALSE, w |-> {}]]]

\* the reports of a run within one session: the wheel at 3 or at rest, the dial at
\* 0, 1, 2 and 255, buttons 1 and 2, and a report that changes three fields
Feed ==
    {Buf(0, 0, 0, 0), Buf(3, 0, 0, 0), Buf(0, 1, 0, 0), Buf(0, 2, 0, 0), Buf(0, 255, 0, 0),
     Buf(0, 0, 32, 0), Buf(3, 1, 16, 0)}

\* one session: startListeners is called once, by onReady
Init == InitWith(Feed, 1, MaxReads, MaxTicks)

\* the report of a run in which the MIDI device is selected again
SwapFeed == {Buf(3, 0, 0, 0)}

\* sessions replaced by later calls of startListeners
InitSwap == InitWith(SwapFeed, MaxStarts, 1, 1)

Next ==
    \/ readdevice_read
    \/ readdevice_readerr
    \/ readdevice_field
    \/ \E s \in Sessions : readshuttle_make(s)
    \/ \E s \in Sessions : readshuttle_select(s)
    \/ \E s \in Sessions : readshuttle_quit(s)
    \/ \E s \in Sessions : readshuttle_recv(s)
    \/ \E s \in Sessions : readshuttle_SendCommand(s)
    \/ \E s \in Sessions : commandExecutor_quit(s)
    \/ \E s \in Sessions : commandExecutor_recv(s)
    \/ \E s \in Sessions : commandExecutor_handle(s)
    \/ \E s \in Sessions : commandExecutor_tick(s)
    \/ startListeners_stop
    \/ Close_quitch
    \/ Close_output
    \/ startListeners_open
    \/ Quit
    \/ onExit

Spec == Init /\ [][Next]_vars

SpecSwap == InitSwap /\ [][Next]_vars

\* A run for the router has the device alternate between rest and one other report:
\* the wheel at a position from -8 to 8 or at an end of int8, the dial one step up
\* or down, or one button down
RouterFeeds ==
    {{ZeroBuf, buf} :
        buf \in {Buf(p % 256, 0, 0, 0) : p \in ((-8..8) \ {0}) \cup {-128, 127}}
                  \cup {Buf(0, 1, 0, 0), Buf(0, 255, 0, 0)}
                  \cup {Buf(0, 0, b, 0) : b \in {16, 32, 64, 128}} \cup {Buf(0, 0, 0, 1)}}

InitRouter == \E feed \in RouterFeeds : InitWith(feed, 1, MaxReads, MaxTicks)

SpecRouter == InitRouter /\ [][Next]_vars

\* A run for the repeats has the wheel held at 3 and released, or moved between 3
\* and 5
RepeatFeeds == {{Buf(3, 0, 0, 0), ZeroBuf}, {Buf(3, 0, 0, 0), Buf(5, 0, 0, 0)}}

\* ticks enough for a repeated command to run out
InitRepeat == \E feed \in RepeatFeeds : InitWith(feed, 1, MaxReads, midiMaxRepeat + MaxTicks)

SpecRepeat == InitRepeat /\ [][Next]_vars

\* A run in which the MIDI device is selected again while the wheel is held at 3
\* or pushed past the end of its range, which makes two commands of one event
StopFeeds == {{Buf(3, 0, 0, 0)}, {Buf(8, 0, 0, 0)}}

InitStop == \E feed \in StopFeeds : InitWith(feed, MaxStarts, 1, 1)

SpecStop == InitStop /\ [][Next]_vars

\* A run of wheel reports only: held at 3, at rest, or turned to -3
WheelFeed == {Buf(3, 0, 0, 0), ZeroBuf, Buf(253, 0, 0, 0)}

\* one session and a report more than in the other runs
InitWheel == InitWith(WheelFeed, 1, MaxReads + 1, MaxTicks)

SpecWheel == InitWheel /\ [][Next]_vars

\* A run in which the wheel goes between 3 and -3 without a report at rest
BothWaysFeed == {Buf(3, 0, 0, 0), Buf(253, 0, 0, 0)}

\* either two reports, which start the repeats of both wheel controllers, and
\* ticks enough for them to run out, or more reports and a few ticks
InitBothWays ==
    \/ InitWith(BothWaysFeed, 1, 2, midiMaxRepeat + 1)
    \/ InitWith(BothWaysFeed, 1, MaxReads, MaxTicks)

SpecBothWays == InitBothWays /\ [][Next]_vars

\* A goroutine that can take a step takes one: readdevice past its Read, every
\* readshuttle, every commandExecutor, and the call the controller is in.  The
\* device's reports and the user's choices in the menu are under no such promise.
Fairness ==
    /\ WF_vars(readdevice_field)
    /\ \A s \in Sessions :
          WF_vars(readshuttle_make(s) \/ readshuttle_select(s) \/ readshuttle_quit(s)
                    \/ readshuttle_recv(s) \/ readshuttle_SendCommand(s))
    /\ \A s \in Sessions :
          WF_vars(commandExecutor_quit(s) \/ commandExecutor_recv(s)
                    \/ commandExecutor_handle(s) \/ commandExecutor_tick(s))
    /\ WF_vars(Close_quitch \/ Close_output \/ startListeners_open \/ onExit)

SpecFair == Init /\ [][Next]_vars /\ Fairness

\* ---------------------------------------------------------------------- claims
IsPrefix(a, b) == Len(a) <= Len(b) /\ SubSeq(b, 1, Len(a)) = a

\* the commands readshuttle s has passed to SendCommand for the event it took last
forwarded(s) == SubSeq(obs.sent[s], obs.mark[s] + 1, Len(obs.sent[s]))

\* the fixed table of the router
RouterTable(ev) ==
    CASE ev.f = 1 /\ ev.v \in 1..7 -> <<Command(0, 18 * (8 - ev.v), TRUE)>>
      [] ev.f = 1 /\ ev.v \in -7..-1 -> <<Command(1, 18 * (0 - ev.v), TRUE)>>
      [] ev.f = 1 /\ ev.v \notin (1..7) \cup (-7..-1) ->
            <<Command(0, 255, FALSE), Command(1, 255, FALSE)>>
      [] ev.f = 2 /\ ev.v = 1 -> <<Command(2, 2, FALSE)>>
      [] ev.f = 2 /\ ev.v = -1 -> <<Command(2, 1, FALSE)>>
      [] ev.f \in 3..7 -> <<Command(2 + (ev.f - 2), IF ev.v = 1 THEN 127 ELSE 0, FALSE)>>

\* C1: for every event readshuttle takes, the commands it passes to SendCommand are
\* those of the router's table for that event, in the table's order: all of them
\* once it is back at the select, and a proper prefix of them while it is still
\* sending.  Before it has taken an event it has passed on nothing.
C1_RouterTable ==
    \A s \in Sessions :
        IF rs[s].ev = NoEvent
        THEN obs.sent[s] = <<>>
        ELSE IF rs[s].pc = "send"
        THEN /\ IsPrefix(forwarded(s), RouterTable(rs[s].ev))
             /\ Len(forwarded(s)) < Len(RouterTable(rs[s].ev))
        ELSE forwarded(s) = RouterTable(rs[s].ev)

\* readshuttle took a wheel position outside -7..7 and has passed on both commands
C1_Witness ==
    \E s \in Sessions :
        /\ rs[s].ev.f = 1
        /\ rs[s].ev.v \notin -7..7
        /\ rs[s].pc = "loop"
        /\ Len(forwarded(s)) = 2

\* readdevice is past the if of field f for the report it read last
past_field(f) ==
    \/ dev.pc \in {"read", "done"}
    \/ dev.pc = "field" /\ dev.f > f
    \/ dev.pc = "send" /\ dev.f >= f

\* the events readdevice has emitted for field f of the report it read last
emitted_for(f) == {e \in obs.emitted : e.f = f}

\* C2: a report that has a predecessor makes readdevice emit a wheel event exactly
\* when its wheel position differs from the wheel position of the report before it.
C2_WheelEdge ==
    (obs.nread >= 2 /\ past_field(1)) =>
        (emitted_for(1) # {} <=> wheel_pos(dev.buf) # wheel_pos(obs.prev))

\* the rotary counter's step from the report before to the report read last
report_delta == int8(dial_pos(dev.buf) - dial_pos(obs.prev))

\* C3: for two consecutive reports, a dial event is emitted only when the counter's
\* step is 1 or -1, it carries that step, and a step of +1 emits one dial event +1.
C3_DialStep ==
    (obs.nread >= 2 /\ past_field(2)) =>
        /\ emitted_for(2) # {} => report_delta \in {1, -1}
        /\ \A e \in emitted_for(2) : e.v = report_delta
        /\ report_delta = 1 => emitted_for(2) = {[f |-> 2, v |-> 1]}

\* a step of the dispatcher of session s that is its tick case
tick_step(s) == exec[s].pc = "select" /\ exec'[s].pc = "select" /\ env'.ticks = env.ticks - 1

\* C4: a repeated command is written once on receipt and once more by every tick
\* while its entry has a counter above 1, which makes midiMaxRepeat = 50 writes when
\* it is not superseded; the tick after the 50th write removes the entry, later
\* ticks write nothing for its controller, and no command is written more than 50
\* times.
C4_RepeatBudget ==
    /\ [](\A s \in Sessions : \A k \in Controllers :
            /\ obs.count[s][k] <= 50
            /\ k \in DOMAIN exec[s].repeatcmd =>
                 /\ exec[s].repeatcmd[k].counter \in 1..50
                 /\ obs.count[s][k] = 51 - exec[s].repeatcmd[k].counter)
    /\ [][\A s \in Sessions : \A k \in Controllers :
            tick_step(s) =>
                /\ (k \in DOMAIN exec[s].repeatcmd /\ obs.count[s][k] < 50) =>
                     obs.count'[s][k] = obs.count[s][k] + 1
                /\ (k \in DOMAIN exec[s].repeatcmd /\ obs.count[s][k] = 50) =>
                     (k \notin DOMAIN exec'[s].repeatcmd /\ obs.count'[s][k] = 50)
                /\ k \notin DOMAIN exec[s].repeatcmd =>
                     (k \notin DOMAIN exec'[s].repeatcmd /\ obs.count'[s][k] = obs.count[s][k])
       ]_vars

\* a repeated command was written 50 times and a tick has removed its entry
C4_Witness ==
    \E s \in Sessions :
        /\ obs.kind[s][0] = "repeat"
        /\ obs.count[s][0] = 50
        /\ 0 \notin DOMAIN exec[s].repeatcmd
        /\ obs.wrote[s].by = "tick"

\* C5: once the dispatcher has handled a command without repeat for a controller,
\* the controller has no entry in the repeat table and no tick writes for it, until
\* a command with repeat for that controller is handled.
C5_Cancel ==
    \A s \in Sessions : \A k \in Controllers :
        obs.kind[s][k] = "once" =>
            /\ k \notin DOMAIN exec[s].repeatcmd
            /\ obs.wrote[s].by = "tick" => \A w \in obs.wrote[s].w : w.controller # k

\* the dispatcher has just handled a command without repeat for controller 0, which
\* had an entry in the repeat table
C5_Witness ==
    \E s \in Sessions :
        /\ obs.kind[s][0] = "once"
        /\ obs.wrote[s].by = "command"
        /\ obs.wrote[s].had
        /\ obs.wrote[s].w = {[controller |-> 0, value |-> 255]}
        /\ exec[s].pc = "select"

\* C6: when startListeners replaces a session, the output of the previous
\* midiControl is closed before the new one is opened, so at most one output is
\* open; and when the new Open fails, the error is shown and, once startListeners
\* has returned, no readshuttle goroutine is running.
C6_FailedOpenStopsConsumers ==
    /\ Cardinality({s \in Sessions : mc[s].output = "open"}) <= 1
    /\ (ctl.n >= 2 /\ ctl.pc = "idle" /\ ~found(ctl.name)) =>
          /\ ctl.err
          /\ \A s \in Sessions : rs[s].pc \in {"none", "done"}

\* C7: a failed Open leaves the program able to go on: with a midiControl whose
\* Open failed, no later startListeners and no onExit panics.
C7_NoPanicAfterFailedOpen ==
    (\E s \in Sessions : s <= ctl.n /\ mc[s].output = "nil") => ctl.pc # "panic"

\* C8: in every session the commands the dispatcher has written on receipt are a
\* prefix of the commands readshuttle has passed to SendCommand, in the same order.
C8_WriteOrder ==
    \A s \in Sessions : IsPrefix(obs.written[s], obs.sent[s])

\* three commands of one report were passed on and written, in that order
C8_Witness ==
    \E s \in Sessions :
        /\ Len(obs.written[s]) = 3
        /\ obs.written[s] = obs.sent[s]
        /\ obs.written[s][1].controller # obs.written[s][2].controller

\* the dispatcher of session s writes in this step, a command or a repeat
writes(s) == obs'.written[s] # obs.written[s] \/ obs'.count[s] # obs.count[s]

\* C9: the commandExecutor of a replaced session has stopped writing before the
\* commandExecutor of the next session is started: while a later one is alive, an
\* earlier one neither writes a command nor a repeat.
C9_OneDispatcher ==
    [][\A s, t \in Sessions :
          (s < t /\ exec[t].pc \in {"select", "handle"}) => ~writes(s)
      ]_vars

\* C10: once mc.quitch is closed, commandExecutor takes no command from
\* mc.commandch and writes nothing, neither a command nor a repeat.
C10_NothingAfterQuit ==
    [][\A s \in Sessions :
          mc[s].quitch = "closed" =>
              /\ Len(mc'[s].commandch) >= Len(mc[s].commandch)
              /\ ~writes(s)
      ]_vars

\* the stop signal of session s is raised: quitch is closed and so is the
\* controller's quitch
stopped(s) == qch[s] = "closed" /\ mc[s].quitch = "closed"

\* readshuttle of session s is in SendCommand on a full mailbox that nobody empties
blocked_in_SendCommand(s) ==
    /\ rs[s].pc = "send"
    /\ Len(mc[s].commandch) >= 1
    /\ exec[s].pc = "done"

\* C11: after the stop signal of a session is raised, readshuttle and
\* commandExecutor of that session terminate; in particular, when startListeners
\* has returned, readshuttle of a stopped session is not left in SendCommand on a
\* mailbox that its commandExecutor, which has returned, no longer empties.
C11_StoppedSessionEnds ==
    \A s \in Sessions :
        (stopped(s) /\ ctl.pc = "idle") => ~blocked_in_SendCommand(s)

\* C12: when a Read of the device fails, readdevice records the error, reads no
\* more, and tells its consumer: every readshuttle that runs then comes to see that
\* readdevice has stopped and leaves its loop.
C12_ReadFailureSeen ==
    /\ [](dev.pc = "done" => se.err)
    /\ [][dev.pc = "done" => (dev'.pc = "done" /\ obs'.nread = obs.nread)]_vars
    /\ (dev.pc = "done") ~> (~Running \/ \A s \in Sessions : rs[s].pc \in {"none", "done"})

\* readdevice has left the if of field f for the report it read last, a send of
\* that if included
left_field(f) ==
    \/ dev.pc \in {"read", "done"}
    \/ dev.pc \in {"field", "send"} /\ dev.f > f

\* C13: the first report read after the start emits no dial event, whatever its
\* counter is, and once readdevice has left the if of the dial the baseline
\* se.dial_value is the counter of that report, whether or not an event was emitted.
C13_FirstReportSetsBaseline ==
    /\ (obs.nread = 1 /\ past_field(2)) => emitted_for(2) = {}
    /\ (obs.nread = 1 /\ left_field(2)) => se.dial_value = dial_pos(dev.buf)

RECURSIVE wheel_commands(_, _)
\* the router's commands for the wheel positions ws, read after position last:
\* those of every position that differs from the one before it
wheel_commands(ws, last) ==
    IF ws = <<>> THEN <<>>
    ELSE (IF Head(ws) = last THEN <<>> ELSE RouterTable([f |-> 1, v |-> Head(ws)]))
            \o wheel_commands(Tail(ws), Head(ws))

\* every event of the reports read so far is handed over and passed on
settled(s) == dev.pc \in {"read", "done"} /\ rs[s].pc # "send"

\* C14: in a running session whose reports were all read with se.Wheel_position
\* made, the commands passed to SendCommand are the router's commands for every
\* report whose wheel position differs from the one of the report before it (the
\* first from rest), in the order of the reports, and a report equal to the one
\* before it adds none: a prefix of them while events are on their way, all of
\* them once every event is handed over and passed on.
C14_WheelEndToEnd ==
    \A s \in Sessions :
        (rs[s].pc # "none" /\ ~obs.early) =>
            /\ IsPrefix(obs.sent[s], wheel_commands(obs.wheels, 0))
            /\ settled(s) => obs.sent[s] = wheel_commands(obs.wheels, 0)

\* the wheel was reported at 3, at 3 again and at rest: one command with repeat,
\* nothing, then the two commands that end the repeats
C14_Witness ==
    /\ ~obs.early
    /\ obs.wheels = <<3, 3, 0>>
    /\ settled(1)
    /\ obs.sent[1] = <<Command(0, 90, TRUE), Command(0, 255, FALSE), Command(1, 255, FALSE)>>

\* the command the dispatcher of session s has handled last for controller k
last_handled(s, k) ==
    LET is == {i \in 1..Len(obs.written[s]) : obs.written[s][i].controller = k}
    IN obs.written[s][CHOOSE i \in is : \A j \in is : j <= i]

\* C15: a command with repeat for a controller that has an entry replaces the
\* entry: the entry carries the value of the command handled last and, until the
\* next tick, the counter 50 again; every write of a tick carries the value of the
\* command handled last for its controller, never the value before it.
C15_Superseded ==
    \A s \in Sessions :
        /\ \A k \in DOMAIN exec[s].repeatcmd :
              /\ last_handled(s, k).repeat
              /\ exec[s].repeatcmd[k].value = last_handled(s, k).value
        /\ obs.wrote[s].by = "tick" =>
              \A w \in obs.wrote[s].w : w.value = last_handled(s, w.controller).value
        /\ (obs.wrote[s].by = "command" /\ exec[s].pc = "select") =>
              \A w \in obs.wrote[s].w :
                  last_handled(s, w.controller).repeat =>
                      exec[s].repeatcmd[w.controller] = [counter |-> 50, value |-> w.value]

\* the wheel went from 3 to 5 while the command of 3 was repeated: the entry of
\* controller 0 was replaced and a tick has written the new value
C15_Witness ==
    \E s \in Sessions :
        /\ obs.written[s] = <<Command(0, 90, TRUE), Command(0, 54, TRUE)>>
        /\ obs.wrote[s].by = "tick"
        /\ obs.wrote[s].w = {[controller |-> 0, value |-> 54]}
        /\ exec[s].repeatcmd[0].counter = 49

\* C16: whenever a dispatcher waits at its select, its ticker runs exactly when
\* its repeat table has an entry: stopped at first, started by a command with
\* repeat, stopped when a command without repeat or a tick empties the table.
C16_TickerIffEntries ==
    \A s \in Sessions :
        exec[s].pc = "select" => (exec[s].tick <=> DOMAIN exec[s].repeatcmd # {})

\* a tick has removed the last entry and the dispatcher waits with its ticker
\* stopped
C16_Witness ==
    \E s \in Sessions :
        /\ exec[s].pc = "select"
        /\ obs.wrote[s].by = "tick"
        /\ obs.count[s][0] = 50
        /\ DOMAIN exec[s].repeatcmd = {}
        /\ ~exec[s].tick

\* the entry of controller k in the repeat table m, or none
NoEntry == [counter |-> 0, value |-> 0]

entry_of(m, k) == IF k \in DOMAIN m THEN m[k] ELSE NoEntry

\* a step of the dispatcher of session s that is the body of its command case
handle_step(s) == exec[s].pc = "handle" /\ exec'[s].pc = "select"

\* C17: the repeat counters of the controllers are independent.  Handling a
\* command for a controller leaves the entry of every other controller as it is;
\* a tick counts every entry down by exactly one, or removes it when its counter
\* is 1, whatever the other entries are, and adds none; so every entry's counter
\* follows from the writes of its own controller alone, and entries started at
\* different times run out at different ticks.
C17_IndependentCounters ==
    /\ [](\A s \in Sessions : \A k \in DOMAIN exec[s].repeatcmd :
            exec[s].repeatcmd[k].counter = 51 - obs.count[s][k])
    /\ [][\A s \in Sessions : \A k \in Controllers :
            /\ (handle_step(s) /\ k # exec[s].cmd.controller) =>
                  entry_of(exec'[s].repeatcmd, k) = entry_of(exec[s].repeatcmd, k)
            /\ tick_step(s) =>
                  entry_of(exec'[s].repeatcmd, k) =
                      IF entry_of(exec[s].repeatcmd, k).counter > 1
                      THEN [exec[s].repeatcmd[k] EXCEPT !.counter = @ - 1]
                      ELSE NoEntry
       ]_vars

\* the repeats of controller 0 have run out and a tick has removed its entry,
\* while the entry of controller 1, started later, is still counted down
C17_Witness ==
    \E s \in Sessions :
        /\ obs.wrote[s].by = "tick"
        /\ obs.count[s][0] = 50
        /\ 0 \notin DOMAIN exec[s].repeatcmd
        /\ 1 \in DOMAIN exec[s].repeatcmd
        /\ exec[s].repeatcmd[1].counter > 1

\* session s was running and startListeners has replaced it: the readshuttle of a
\* later session is started
replaced(s) == rs[s].pc # "none" /\ \E t \in Sessions : t > s /\ rs[t].pc # "none"

\* readdevice is in a send on a channel that se no longer holds and that no
\* readshuttle has among the operands of the select it waits in: no receive will
\* ever meet this send
handoff_lost ==
    /\ dev.pc = "send"
    /\ dev.ch # 0
    /\ se.chans[dev.f] # dev.ch
    /\ \A s \in Sessions : ~(rs[s].pc = "select" /\ rs[s].sel[dev.f] = dev.ch)

\* readshuttle of session s takes an event in this step
takes_event(s) == rs[s].pc = "select" /\ rs'[s].pc = "send"

\* C18: once startListeners has replaced a running session, what readdevice sends
\* goes to the readshuttle of the new session: readdevice is never left in a send
\* on a channel of the previous session that nobody will receive from, and the
\* readshuttle of the previous session takes no event.
C18_EventsReachNewSession ==
    /\ []((\E s \in Sessions : replaced(s)) => ~handoff_lost)
    /\ [][\A s \in Sessions : replaced(s) => ~takes_event(s)]_vars

\* C19: readdevice never sends on a channel that is not made: in every send it is
\* in, for button 2 to 5 as for the other fields, the channel is not nil.
C19_SendOnMadeChannel ==
    dev.pc = "send" => dev.ch # 0

\* C20: at most one of the two wheel controllers 0 and 1 has an entry in the
\* repeat table, also when the wheel goes from a positive to a negative position
\* with no report at rest between them.
C20_OneWheelDirection ==
    \A s \in Sessions : ~({0, 1} \subseteq DOMAIN exec[s].repeatcmd)

====
